---- MODULE Spec2Model ----
(***************************************************************************)
(* YouTubeMDBot/database/psql.py: the PostgreSQLBase write coordinator.    *)
(*                                                                         *)
(* Python facts the translation rests on:                                  *)
(*  - inside the class body, PostgreSQLBase.__instance and cls.__instance  *)
(*    are the attribute _PostgreSQLBase__instance read on the base class   *)
(*    and written on cls; a subclass attribute shadows the base one;       *)
(*  - Thread(target=cls.__iuhandler) holds the plain function: run() calls *)
(*    it with no argument and the thread dies with TypeError;              *)
(*  - Thread(name="qthread") has no target and start() is never called;    *)
(*  - Condition.notify_all() raises RuntimeError ("cannot notify on        *)
(*    un-acquired lock") when the calling thread does not own the          *)
(*    condition, before any waiter is woken; no caller in this file owns   *)
(*    it;                                                                  *)
(*  - Thread.join() on a thread that was never started raises RuntimeError.*)
(***************************************************************************)
EXTENDS Integers, Sequences, FiniteSets, TLC

\* ---------------------------------------------------------------- bounds
MaxInst == 2        \* coordinator objects that may be created
MaxOps == 2         \* Query objects that may be created
MinOps == 2         \* the min_ops a coordinator is constructed with

None == 0
Base == "PostgreSQLBase"
Classes == {Base, "Initializer", "MetadataDB"}
Inst == 1..MaxInst
Callers == {"t1", "t2"}

VARIABLES
    instance,           \* class -> the __instance attribute stored on that class
    created,            \* number of coordinator objects created so far
    connection,         \* inst -> "none" | "open" | "closed"
    min_ops,            \* inst -> min_ops
    close,              \* inst -> __close
    updating_database,  \* inst -> __updating_database
    waiting_ops,        \* inst -> intake queue (sequence of query ids)
    pending_ops,        \* inst -> commit batch (sequence of query ids)
    iuthread,           \* inst -> position of the iuthread
    qthread,            \* inst -> position of the qthread
    cursors,            \* inst -> set of threads holding an open cursor
    txn,                \* inst -> statements executed in the open transaction
    store,              \* statements committed to the database, in order
    aborted,            \* inst -> query whose statement failed (None: none)
    queries,            \* the Query objects created, by id
    pc,                 \* caller -> position of the caller thread
    ref,                \* caller -> the coordinator object it holds
    video,              \* the YouTubeVideoData call: its arguments and outcome
    del_pc,             \* inst -> position of __del__
    last                \* how the last call ended: what it returned or raised

vars == <<instance, created, connection, min_ops, close, updating_database,
          waiting_ops, pending_ops, iuthread, qthread, cursors, txn, store,
          aborted, queries, pc, ref, video, del_pc, last>>

coordVars == <<instance, created, connection, min_ops, close, updating_database,
               waiting_ops, pending_ops, iuthread, qthread, cursors, txn, store,
               aborted, del_pc>>

\* ------------------------------------------------------------ class Query
\* Query.__init__: a fresh Future, not resolved.
Query(c, i, returning_id) ==
    [caller |-> c, inst |-> i, returning_id |-> returning_id,
     return_value |-> "pending", resolutions |-> 0,
     row |-> None, id |-> None]

\* ------------------------------------------------------------ CQueue
\* put appends at the tail.
CQueuePut(q, x) == Append(q, x)

\* iteration takes the head and removes it, until the queue is empty.
CQueueHead(q) == Head(q)

CQueueRest(q) == Tail(q)

\* ------------------------------------------------------------ Init
\* No YouTubeVideoData is being constructed.
NoVideo == [called |-> FALSE]

InitProgram ==
    /\ instance = [cls \in Classes |-> None]
    /\ created = 0
    /\ connection = [i \in Inst |-> "none"]
    /\ min_ops = [i \in Inst |-> 0]
    /\ close = [i \in Inst |-> FALSE]
    /\ updating_database = [i \in Inst |-> FALSE]
    /\ waiting_ops = [i \in Inst |-> <<>>]
    /\ pending_ops = [i \in Inst |-> <<>>]
    /\ iuthread = [i \in Inst |-> "none"]
    /\ qthread = [i \in Inst |-> "none"]
    /\ cursors = [i \in Inst |-> {}]
    /\ txn = [i \in Inst |-> <<>>]
    /\ store = <<>>
    /\ aborted = [i \in Inst |-> None]
    /\ queries = <<>>
    /\ pc = [c \in Callers |-> "idle"]
    /\ ref = [c \in Callers |-> None]
    /\ del_pc = [i \in Inst |-> "none"]
    /\ last = "none"

Init == InitProgram /\ video = NoVideo

\* A call that returned or raised: how it ended ("None": it returned None,
\* "value": it returned an object or rows, "raised": it raised an exception).
Returned(result) == last' = result

\* ------------------------------------------------------------ __new__
\* The test of line 57 reads the attribute on the base class.
NoInstance == instance[Base] = None

\* line 78, cls.__instance: the attribute of cls, else the inherited one.
Lookup(attr, cls) == IF attr[cls] # None THEN attr[cls] ELSE attr[Base]

\* lines 56-78, under instance_lock. iu and q are where the two threads stand
\* once line 75 has run.
Construct(c, cls, k, iu, q) ==
    /\ pc[c] = "idle"
    /\ IF NoInstance
       THEN /\ created < MaxInst
            /\ LET i == created + 1 IN
               /\ created' = i
               /\ instance' = [instance EXCEPT ![cls] = i]
               /\ connection' = [connection EXCEPT ![i] = "open"]
               /\ min_ops' = [min_ops EXCEPT ![i] = k]
               /\ iuthread' = [iuthread EXCEPT ![i] = iu]
               /\ qthread' = [qthread EXCEPT ![i] = q]
               /\ del_pc' = [del_pc EXCEPT ![i] = "idle"]
            /\ UNCHANGED <<close, updating_database, waiting_ops, pending_ops,
                           cursors, txn, store, aborted>>
       ELSE UNCHANGED coordVars
    /\ ref' = [ref EXCEPT ![c] = Lookup(instance', cls)]
    /\ Returned("value")
    /\ UNCHANGED <<queries, pc, video>>

\* The program as written: the iuthread started on line 75 calls the handler
\* function without an object, TypeError, and is over before the handler's
\* first line; the qthread of line 67 is never started.
New(c, cls, k) == Construct(c, cls, k, "dead", "initial")

\* ------------------------------------------------------------ insert / update
\* Query objects created or about to be (the bound on them).
PutPcs == {"put", "put_id", "rnm_put", "rnm_link"}

InFlight == Len(queries) + Cardinality({c \in Callers : pc[c] \in PutPcs})

\* lines 129 and 136: the test of self.close; the call returns None when set.
Intake(c, op, returning_id) ==
    /\ pc[c] = "idle"
    /\ ref[c] # None
    /\ IF ~close[ref[c]]
       THEN /\ InFlight < MaxOps
            /\ pc' = [pc EXCEPT ![c] = IF returning_id THEN "put_id" ELSE "put"]
            /\ UNCHANGED last
       ELSE /\ Returned("None")
            /\ UNCHANGED pc
    /\ UNCHANGED <<coordVars, queries, ref, video>>

insert(c, returning_id) == Intake(c, "insert", returning_id)

update(c) == Intake(c, "update", FALSE)

\* A notify_all() that returned instead of raising.
NotifyAllQuiet == FALSE

\* lines 132 and 139: qcond.notify_all() is called by a thread that does not
\* own the condition, and raises RuntimeError.
NotifyAllRaises == TRUE

\* lines 130-133 and 137-139: the Query is put in waiting_ops, then
\* qcond.notify_all() raises RuntimeError, so insert never returns the Query
\* (line 349 of register_new_metadata, which waits for its result, is reached
\* only by an insert that returns). After __del__ has deleted the queue the
\* put itself raises AttributeError.
Put(c) ==
    /\ pc[c] \in PutPcs
    /\ LET i == ref[c] IN
       IF del_pc[i] = "done"
       THEN /\ Returned("raised")
            /\ pc' = [pc EXCEPT ![c] = "idle"]
            /\ UNCHANGED <<queries, waiting_ops>>
       ELSE /\ queries' = Append(queries,
                                 Query(c, i, pc[c] \in {"put_id", "rnm_put"}))
            /\ waiting_ops' = [waiting_ops EXCEPT
                                  ![i] = CQueuePut(@, Len(queries) + 1)]
            /\ IF NotifyAllRaises
               THEN /\ Returned("raised")
                    /\ pc' = [pc EXCEPT ![c] = "idle"]
               ELSE IF pc[c] = "rnm_put"
               THEN /\ pc' = [pc EXCEPT ![c] = "l349"]
                    /\ UNCHANGED last
               ELSE /\ Returned("value")
                    /\ pc' = [pc EXCEPT ![c] = "idle"]
    /\ UNCHANGED <<instance, created, connection, min_ops, close,
                   updating_database, pending_ops, iuthread, qthread, cursors,
                   txn, store, aborted, ref, video, del_pc>>

\* ------------------------------------------------------------ MetadataDB
\* The Query whose result caller c waits for on line 349: the last one it put.
Awaited(c) ==
    CHOOSE q \in 1..Len(queries) :
        /\ queries[q].caller = c
        /\ \A r \in 1..Len(queries) : queries[r].caller = c => r <= q

\* lines 343-354. The call starts with insert's test of self.close (insert
\* returns None when it is set, and None.return_value raises AttributeError);
\* on line 349 it waits for the result of the Metadata insert, and with the
\* id it calls insert for the Video_Has_Metadata row and returns the id.
register_new_metadata(c) ==
    /\ ref[c] # None
    /\ \/ /\ pc[c] = "idle"
          /\ IF ~close[ref[c]]
             THEN /\ InFlight < MaxOps
                  /\ pc' = [pc EXCEPT ![c] = "rnm_put"]
                  /\ UNCHANGED last
             ELSE /\ Returned("raised")
                  /\ UNCHANGED pc
       \/ /\ pc[c] = "l349"
          /\ queries[Awaited(c)].return_value # "pending"
          /\ IF ~close[ref[c]]
             THEN /\ InFlight < MaxOps
                  /\ pc' = [pc EXCEPT ![c] = "rnm_link"]
                  /\ UNCHANGED last
             ELSE /\ Returned("value")
                  /\ pc' = [pc EXCEPT ![c] = "idle"]
    /\ UNCHANGED <<coordVars, queries, ref, video>>

\* ------------------------------------------------------------ synchronous path
\* lines 142-143 (and 148, 154, 160, 166): the test of self.close, then a
\* cursor on the shared connection, taken as one step; no lock is taken. The
\* four reads differ only in what they fetch; delete differs in how it ends.
SyncCall(c, op) ==
    /\ pc[c] = "idle"
    /\ ref[c] # None
    /\ LET i == ref[c] IN
       IF ~close[i]
       THEN /\ cursors' = [cursors EXCEPT ![i] = @ \cup {c}]
            /\ pc' = [pc EXCEPT ![c] = IF op = "delete" THEN "delete" ELSE "read"]
            /\ UNCHANGED last
       ELSE /\ Returned("None")
            /\ UNCHANGED <<cursors, pc>>
    /\ UNCHANGED <<instance, created, connection, min_ops, close,
                   updating_database, waiting_ops, pending_ops, iuthread, qthread,
                   txn, store, aborted, queries, ref, video, del_pc>>

fetchone(c) == SyncCall(c, "fetchone")

fetchmany(c) == SyncCall(c, "fetchmany")

fetchall(c) == SyncCall(c, "fetchall")

delete(c) == SyncCall(c, "delete")

callproc(c) == SyncCall(c, "callproc")

\* A synchronous operation that stages its statement as insert does.
SyncReturnStaged(c) ==
    /\ pc[c] \in {"read", "delete"}
    /\ LET i == ref[c] IN
       /\ cursors' = [cursors EXCEPT ![i] = @ \ {c}]
       /\ queries' = Append(queries, Query(c, i, FALSE))
       /\ waiting_ops' = [waiting_ops EXCEPT
                             ![i] = CQueuePut(@, Len(queries) + 1)]
    /\ Returned("value")
    /\ pc' = [pc EXCEPT ![c] = "idle"]
    /\ UNCHANGED <<instance, created, connection, min_ops, close,
                   updating_database, pending_ops, iuthread, qthread,
                   txn, store, aborted, ref, video, del_pc>>

\* lines 144-145 (and the like): execute, fetch, leave the with block. On a
\* connection closed meanwhile execute raises; delete's cursor.commit() does not
\* exist (AttributeError).
SyncReturn(c) ==
    /\ pc[c] \in {"read", "delete"}
    /\ LET i == ref[c] IN
       /\ cursors' = [cursors EXCEPT ![i] = @ \ {c}]
       /\ Returned(IF connection[i] = "closed" \/ pc[c] = "delete"
                   THEN "raised" ELSE "value")
    /\ pc' = [pc EXCEPT ![c] = "idle"]
    /\ UNCHANGED <<instance, created, connection, min_ops, close,
                   updating_database, waiting_ops, pending_ops, iuthread, qthread,
                   txn, store, aborted, queries, ref, video, del_pc>>

\* ------------------------------------------------------------ Initializer
\* lines 186-192: init sets updating_database, reads the schema file and
\* opens a cursor; on a closed connection connection.cursor() raises. The
\* body does not depend on self.close. The method exists on objects of the
\* class Initializer only.
init(c) ==
    /\ pc[c] = "idle"
    /\ ref[c] # None
    /\ ref[c] = instance["Initializer"]
    /\ LET i == ref[c] IN
       /\ updating_database' = [updating_database EXCEPT ![i] = TRUE]
       /\ IF connection[i] = "open"
          THEN /\ cursors' = [cursors EXCEPT ![i] = @ \cup {c}]
               /\ pc' = [pc EXCEPT ![c] = "init"]
               /\ UNCHANGED last
          ELSE /\ Returned("raised")
               /\ UNCHANGED <<cursors, pc>>
    /\ UNCHANGED <<instance, created, connection, min_ops, close, waiting_ops,
                   pending_ops, iuthread, qthread, txn, store, aborted, queries,
                   ref, video, del_pc>>

\* lines 193-194: the schema is executed, then cursor.commit() raises
\* AttributeError (a cursor has no commit); the exception leaves the with
\* block and init, and lines 195-196, which clear the flag, are not reached.
init193(c) ==
    /\ pc[c] = "init"
    /\ cursors' = [cursors EXCEPT ![ref[c]] = @ \ {c}]
    /\ Returned("raised")
    /\ pc' = [pc EXCEPT ![c] = "idle"]
    /\ UNCHANGED <<instance, created, connection, min_ops, close,
                   updating_database, waiting_ops, pending_ops, iuthread, qthread,
                   txn, store, aborted, queries, ref, video, del_pc>>

\* ------------------------------------------------------------ __del__
delVars == <<instance, created, min_ops, updating_database, waiting_ops,
             pending_ops, iuthread, qthread, cursors, txn, store, aborted,
             queries, pc, ref, video, last>>

\* line 172
Del172(i) ==
    /\ del_pc[i] = "idle"
    /\ close' = [close EXCEPT ![i] = TRUE]
    /\ del_pc' = [del_pc EXCEPT ![i] = "l173"]
    /\ UNCHANGED <<delVars, connection>>

\* lines 173-175: qcond.notify_all() raises; __del__ is over.
Del173(i) ==
    /\ del_pc[i] = "l173"
    /\ del_pc' = [del_pc EXCEPT
                     ![i] = IF waiting_ops[i] # <<>> THEN "failed" ELSE "l176"]
    /\ UNCHANGED <<delVars, connection, close>>

\* lines 176-178: iucond.notify_all() raises; __del__ is over.
Del176(i) ==
    /\ del_pc[i] = "l176"
    /\ del_pc' = [del_pc EXCEPT
                     ![i] = IF pending_ops[i] # <<>> THEN "failed" ELSE "l179"]
    /\ UNCHANGED <<delVars, connection, close>>

\* lines 179-182
Del179(i) ==
    /\ del_pc[i] = "l179"
    /\ connection' = [connection EXCEPT ![i] = "closed"]
    /\ del_pc' = [del_pc EXCEPT ![i] = "done"]
    /\ UNCHANGED <<delVars, close>>

\* ------------------------------------------------------------ the program
Calls ==
    \/ \E c \in Callers, r \in BOOLEAN : insert(c, r)
    \/ \E c \in Callers : update(c)
    \/ \E c \in Callers : Put(c)
    \/ \E c \in Callers : register_new_metadata(c)
    \/ \E c \in Callers : fetchone(c)
    \/ \E c \in Callers : fetchmany(c)
    \/ \E c \in Callers : fetchall(c)
    \/ \E c \in Callers : delete(c)
    \/ \E c \in Callers : callproc(c)
    \/ \E c \in Callers : SyncReturn(c)
    \/ \E i \in Inst : Del172(i)
    \/ \E i \in Inst : Del173(i)
    \/ \E i \in Inst : Del176(i)
    \/ \E i \in Inst : Del179(i)

Next ==
    \/ \E c \in Callers : init(c)
    \/ \E c \in Callers : init193(c)
    \/ \E c \in Callers, cls \in Classes, k \in {MinOps} : New(c, cls, k)
    \/ Calls

Spec == Init /\ [][Next]_vars

\* ============================================================ the handlers
\* The bodies of __iuhandler and __qhandler, as written, for a coordinator
\* whose two threads run them on the object (target bound to the instance,
\* both threads started), the coordinator being requested as PostgreSQLBase(),
\* which makes it the one object of the process. Everything else is the
\* program above.
NewBound(c, k) == Construct(c, Base, k, "l101", "l118")

iuVars == <<instance, created, min_ops, close, waiting_ops, qthread, queries,
            pc, ref, video, del_pc, last>>

\* line 101
Iu101(i) ==
    /\ iuthread[i] = "l101"
    /\ iuthread' = [iuthread EXCEPT ![i] = IF close[i] THEN "stopped" ELSE "l103"]
    /\ UNCHANGED <<iuVars, connection, updating_database, pending_ops, cursors,
                   txn, store, aborted>>

\* The predicate of lines 104-105 with its comparison off by one.
IuPredicateOffByOne(i) == Len(pending_ops[i]) + 1 >= min_ops[i] \/ close[i]

\* The predicate of lines 104-105.
IuPredicate(i) == Len(pending_ops[i]) >= min_ops[i] \/ close[i]

\* lines 102-106: wait_for tests the predicate and waits for a notify when it
\* is false; no notify_all of the program ever wakes a waiter.
Iu103(i) ==
    /\ iuthread[i] = "l103"
    /\ iuthread' = [iuthread EXCEPT
                       ![i] = IF IuPredicate(i) THEN "l107" ELSE "blocked"]
    /\ UNCHANGED <<iuVars, connection, updating_database, pending_ops, cursors,
                   txn, store, aborted>>

\* lines 107-108
Iu107(i) ==
    /\ iuthread[i] = "l107"
    /\ updating_database' = [updating_database EXCEPT ![i] = TRUE]
    /\ IF connection[i] = "closed"
       THEN /\ iuthread' = [iuthread EXCEPT ![i] = "dead"]
            /\ UNCHANGED cursors
       ELSE /\ iuthread' = [iuthread EXCEPT ![i] = "l109"]
            /\ cursors' = [cursors EXCEPT ![i] = @ \cup {"iuthread"}]
    /\ UNCHANGED <<iuVars, connection, pending_ops, txn, store, aborted>>

\* The identifier the database generates for the row of the next statement
\* it executes (a serial column: one more than the rows generated so far).
NextVal == Cardinality({q \in 1..Len(queries) : queries[q].row # None}) + 1

\* line 110: cursor.execute of query q succeeded and generated a row.
Execute(qs, q) == [qs EXCEPT ![q].row = NextVal]

\* A set_result that delivers the identifier of the first row.
SetResultFirst(qs, q, v) ==
    [qs EXCEPT ![q].return_value = "value", ![q].resolutions = @ + 1,
               ![q].id = 1]

\* line 112: Future.set_result(cursor.fetchone()[0]), v being the identifier
\* the cursor holds after the execute of line 110.
SetResult(qs, q, v) ==
    [qs EXCEPT ![q].return_value = "value", ![q].resolutions = @ + 1,
               ![q].id = v]

\* lines 109-112, one turn of the loop: the next query is taken from
\* pending_ops and executed; the database accepts the statement or not. An
\* exception leaves the with block and ends the thread: nothing catches it.
Iu109(i) ==
    /\ iuthread[i] = "l109"
    /\ IF pending_ops[i] = <<>>
       THEN /\ iuthread' = [iuthread EXCEPT ![i] = "l113"]
            /\ cursors' = [cursors EXCEPT ![i] = @ \ {"iuthread"}]
            /\ UNCHANGED <<pending_ops, txn, aborted, queries>>
       ELSE LET q == CQueueHead(pending_ops[i]) IN
            /\ pending_ops' = [pending_ops EXCEPT ![i] = CQueueRest(@)]
            /\ \E ok \in BOOLEAN :
                 IF ok /\ connection[i] = "open"
                 THEN /\ txn' = [txn EXCEPT ![i] = Append(@, q)]
                      /\ queries' = IF queries[q].returning_id
                                    THEN SetResult(Execute(queries, q), q,
                                                   NextVal)
                                    ELSE Execute(queries, q)
                      /\ UNCHANGED <<iuthread, cursors, aborted>>
                 ELSE /\ aborted' = [aborted EXCEPT ![i] = q]
                      /\ iuthread' = [iuthread EXCEPT ![i] = "dead"]
                      /\ cursors' = [cursors EXCEPT ![i] = @ \ {"iuthread"}]
                      /\ UNCHANGED <<txn, queries>>
    /\ UNCHANGED <<instance, created, min_ops, close, waiting_ops, qthread,
                   pc, ref, video, del_pc, last, connection, updating_database, store>>

\* A commit after which the executed operations are staged in the batch again.
Iu113Restage(i) ==
    /\ iuthread[i] = "l113"
    /\ IF connection[i] = "closed"
       THEN /\ iuthread' = [iuthread EXCEPT ![i] = "dead"]
            /\ UNCHANGED <<txn, store, pending_ops>>
       ELSE /\ iuthread' = [iuthread EXCEPT ![i] = "l114"]
            /\ store' = store \o txn[i]
            /\ pending_ops' = [pending_ops EXCEPT ![i] = txn[i] \o @]
            /\ txn' = [txn EXCEPT ![i] = <<>>]
    /\ UNCHANGED <<iuVars, connection, updating_database, cursors, aborted>>

\* line 113
Iu113(i) ==
    /\ iuthread[i] = "l113"
    /\ IF connection[i] = "closed"
       THEN /\ iuthread' = [iuthread EXCEPT ![i] = "dead"]
            /\ UNCHANGED <<txn, store>>
       ELSE /\ iuthread' = [iuthread EXCEPT ![i] = "l114"]
            /\ store' = store \o txn[i]
            /\ txn' = [txn EXCEPT ![i] = <<>>]
    /\ UNCHANGED <<iuVars, connection, updating_database, pending_ops, cursors,
                   aborted>>

\* lines 114-115: the flag is cleared, then qcond.notify_all() raises
\* RuntimeError and the thread is over.
Iu114(i) ==
    /\ iuthread[i] = "l114"
    /\ updating_database' = [updating_database EXCEPT ![i] = FALSE]
    /\ iuthread' = [iuthread EXCEPT ![i] = "dead"]
    /\ UNCHANGED <<iuVars, connection, pending_ops, cursors, txn, store, aborted>>

qVars == <<instance, created, connection, min_ops, close, updating_database,
           iuthread, cursors, txn, store, aborted, queries, pc, ref, video, del_pc, last>>

\* line 118
Q118(i) ==
    /\ qthread[i] = "l118"
    /\ qthread' = [qthread EXCEPT ![i] = IF close[i] THEN "stopped" ELSE "l120"]
    /\ UNCHANGED <<qVars, waiting_ops, pending_ops>>

\* The predicate of lines 121-122.
QPredicate(i) == (waiting_ops[i] # <<>> /\ ~updating_database[i]) \/ close[i]

\* lines 119-123
Q120(i) ==
    /\ qthread[i] = "l120"
    /\ qthread' = [qthread EXCEPT
                      ![i] = IF QPredicate(i) THEN "l124" ELSE "blocked"]
    /\ UNCHANGED <<qVars, waiting_ops, pending_ops>>

\* lines 124-126, one turn of the loop: the next query moves from waiting_ops
\* to pending_ops; after the last one iucond.notify_all() raises RuntimeError
\* and the thread is over.
Q124(i) ==
    /\ qthread[i] = "l124"
    /\ IF waiting_ops[i] = <<>>
       THEN /\ qthread' = [qthread EXCEPT ![i] = "dead"]
            /\ UNCHANGED <<waiting_ops, pending_ops>>
       ELSE /\ pending_ops' = [pending_ops EXCEPT
                                  ![i] = CQueuePut(@, CQueueHead(waiting_ops[i]))]
            /\ waiting_ops' = [waiting_ops EXCEPT ![i] = CQueueRest(@)]
            /\ UNCHANGED qthread
    /\ UNCHANGED qVars

NextBound ==
    \/ \E c \in Callers, k \in {MinOps} : NewBound(c, k)
    \/ Calls
    \/ \E i \in Inst : Iu101(i)
    \/ \E i \in Inst : Iu103(i)
    \/ \E i \in Inst : Iu107(i)
    \/ \E i \in Inst : Iu109(i)
    \/ \E i \in Inst : Iu113(i)
    \/ \E i \in Inst : Iu114(i)
    \/ \E i \in Inst : Q118(i)
    \/ \E i \in Inst : Q120(i)
    \/ \E i \in Inst : Q124(i)

SpecBound == Init /\ [][NextBound]_vars

\* ============================================================ YouTubeVideoData
\* (api/youtube_api.py)
\* What dict.get gives for a part of the response: None when the key is
\* missing, an empty dict, or a dict with the fields of the API.
Parts == {"missing", "empty", "full"}

\* The resolutions a snippet's "thumbnails" may carry.
ThumbnailSets ==
    {{"maxres", "default"}, {"high", "default"}, {"medium", "default"},
     {"default"}}

\* The first element of "items".
Contents ==
    {ct \in [id : {"str", "dict"}, snippet : Parts, thumbnails : ThumbnailSets,
             details : Parts, statistics : Parts] :
        ct.snippet # "full" => ct.thumbnails = {"default"}}

NoContent ==
    [id |-> "str", snippet |-> "missing", thumbnails |-> {"default"},
     details |-> "missing", statistics |-> "missing"]

\* The data argument: "items" missing, an empty list, or a list whose first
\* element is content.
Datas ==
    {[items |-> "missing", content |-> NoContent],
     [items |-> "empty", content |-> NoContent]}
        \cup {[items |-> "one", content |-> ct] : ct \in Contents}

\* not x, for x a part of the response.
Not(part) == part \in {"missing", "empty"}

\* lines 47-54: the fields as the constructor first sets them.
Defaults ==
    [raised |-> "none", id |-> "", title |-> "", thumbnail |-> "",
     artist |-> "", duration |-> 0, views |-> 0, likes |-> 0, dislikes |-> 0]

\* The construction ended with raise EmptyBodyError(...): there is no object.
EmptyBodyError == [Defaults EXCEPT !.raised = "EmptyBodyError"]

\* lines 77-87: the url of the first of maxres, high, medium, default that
\* the thumbnails carry (the url is written as the resolution's name).
Thumbnail(thumbnails) ==
    IF "maxres" \in thumbnails THEN "maxres"
    ELSE IF "high" \in thumbnails THEN "high"
    ELSE IF "medium" \in thumbnails THEN "medium"
    ELSE "default"

\* line 90: parse_duration(details["duration"]).total_seconds() of the
\* duration the response carries, "PT1M30S".
TotalSeconds == 90

\* lines 92-94: int() of the counts the response carries, "5", "3" and "1".
ViewCount == 5

LikeCount == 3

DislikeCount == 1

\* lines 45-94, YouTubeVideoData.__init__: the fields of the object, or the
\* exception.
YouTubeVideoData(data, ignore_errors) ==
    IF data.items \in {"missing", "empty"}
    THEN EmptyBodyError
    ELSE LET content == data.content
             snippet == content.snippet
             details == content.details
             statistics == content.statistics
         IN IF (Not(snippet) \/ Not(details) \/ Not(statistics))
                  /\ ~ignore_errors
            THEN EmptyBodyError
            ELSE [raised |-> "none",
                  id |-> "videoId",
                  title |-> IF ~Not(snippet) THEN "title" ELSE "",
                  thumbnail |-> IF ~Not(snippet)
                                THEN Thumbnail(content.thumbnails) ELSE "",
                  artist |-> IF ~Not(snippet) THEN "channelTitle" ELSE "",
                  duration |-> IF ~Not(details) THEN TotalSeconds ELSE 0,
                  views |-> IF ~Not(statistics) THEN ViewCount ELSE 0,
                  likes |-> IF ~Not(statistics) THEN LikeCount ELSE 0,
                  dislikes |-> IF ~Not(statistics) THEN DislikeCount ELSE 0]

programVars ==
    <<instance, created, connection, min_ops, close, updating_database,
      waiting_ops, pending_ops, iuthread, qthread, cursors, txn, store,
      aborted, queries, pc, ref, del_pc, last>>

\* A call YouTubeVideoData(data, ignore_errors) about to run.
InitVideo ==
    /\ InitProgram
    /\ video \in {[called |-> TRUE, data |-> d, ignore_errors |-> ig] :
                      d \in Datas, ig \in BOOLEAN}

\* The constructor runs.
NewVideoData ==
    /\ video.called
    /\ "result" \notin DOMAIN video
    /\ video' = [called |-> TRUE, data |-> video.data,
                 ignore_errors |-> video.ignore_errors,
                 result |-> YouTubeVideoData(video.data, video.ignore_errors)]
    /\ UNCHANGED programVars

NextVideo == NewVideoData

SpecVideo == InitVideo /\ [][NextVideo]_vars

\* ============================================================ the claims
QueryIds == 1..Len(queries)

\* The queries caller c put in the intake queue of object i, in the order of
\* the puts (ids are given in that order).
EnqueuedBy(c, i) ==
    SelectSeq([n \in QueryIds |-> n],
              LAMBDA q : queries[q].caller = c /\ queries[q].inst = i)

\* The queries of caller c on object i that the database has committed, in
\* the order of their execution.
ExecutedBy(c, i) ==
    SelectSeq(store, LAMBDA q : queries[q].caller = c /\ queries[q].inst = i)

\* C1: once the shutdown of a coordinator has completed, the database holds
\* the operations each caller thread enqueued on it, executed in the order
\* that thread enqueued them.
C1_PerThreadOrder ==
    \A i \in Inst : del_pc[i] = "done" =>
        \A c \in Callers : ExecutedBy(c, i) = EnqueuedBy(c, i)

C3_ExactlyOnce ==
    /\ \A q \in QueryIds : queries[q].resolutions <= 1
    /\ \A i \in Inst : del_pc[i] = "done" =>
          \A q \in QueryIds :
              (queries[q].inst = i /\ queries[q].returning_id) =>
                  queries[q].return_value # "pending"

\* C4: at most one thread holds a cursor on a coordinator's connection.
C4_ConnectionMutex == \A i \in Inst : Cardinality(cursors[i]) <= 1

AbortedBatch(i) ==
    {txn[i][n] : n \in 1..Len(txn[i])} \cup {aborted[i]}
        \cup {pending_ops[i][n] : n \in 1..Len(pending_ops[i])}

IntakeCall(c) == insert(c, TRUE) \/ insert(c, FALSE) \/ update(c)

\* A step that is a call of one of the synchronous operations by caller c.
SyncCallBy(c) ==
    fetchone(c) \/ fetchmany(c) \/ fetchall(c) \/ delete(c) \/ callproc(c)

\* C7: an insert or update called on a coordinator whose shutdown has begun
\* raises an error and leaves the intake queue as it was.
C7_IntakeRejected ==
    [][\A c \in Callers :
          (ref[c] # None /\ close[ref[c]] /\ IntakeCall(c)) =>
              (last' = "raised" /\ UNCHANGED waiting_ops)]_vars

\* C8: at most one coordinator object is ever constructed (one connection
\* opened, one pair of worker threads created), and all callers hold the same
\* object.
C8_Singleton ==
    /\ created <= 1
    /\ \A c1, c2 \in Callers :
          (ref[c1] # None /\ ref[c2] # None) => ref[c1] = ref[c2]

\* C9: a call of insert, update or a synchronous operation on a coordinator
\* whose shutdown has completed raises an error, and so does a construction
\* request made after a shutdown has completed.
C9_NoSilentUse ==
    [][\A c \in Callers :
          /\ (ref[c] # None /\ del_pc[ref[c]] = "done"
                 /\ (IntakeCall(c) \/ SyncCallBy(c))) => last' = "raised"
          /\ ((\E i \in Inst : del_pc[i] = "done")
                 /\ (\E cls \in Classes : New(c, cls, MinOps))) => last' = "raised"
      ]_vars

\* C10: a shutdown that is over has closed the connection: __del__ does not
\* end with the connection still open.
C10_ShutdownTerminates ==
    \A i \in Inst : del_pc[i] \in {"done", "failed"} => connection[i] = "closed"

\* The operations that were executed in a commit attempt on coordinator i:
\* committed, executed in the open transaction, or failed in execution.
Attempted(i) ==
    {store[n] : n \in 1..Len(store)} \cup {txn[i][n] : n \in 1..Len(txn[i])}
        \cup {aborted[i]}

\* C11: once the shutdown of a coordinator has completed, neither its intake
\* queue nor its commit batch holds an operation, and every operation that
\* was put in its intake queue has been executed in a commit attempt.
C11_NoOperationLost ==
    \A i \in Inst : del_pc[i] = "done" =>
        /\ waiting_ops[i] = <<>>
        /\ pending_ops[i] = <<>>
        /\ \A q \in QueryIds : queries[q].inst = i => q \in Attempted(i)

\* A caller thread that is inside a call keeps running: the insert body and
\* the wait of register_new_metadata are steps of a started thread.
Running(c) == pc[c] \in PutPcs \cup {"l349"} /\ (Put(c) \/ register_new_metadata(c))

FairSpec == Spec /\ \A c \in Callers : WF_vars(Running(c))

C13_SyncBypassesQueues ==
    [][\A c \in Callers :
          (SyncCallBy(c) \/ SyncReturn(c)) =>
              UNCHANGED <<waiting_ops, pending_ops, queries>>]_vars

\* C13, its case: a synchronous operation is executing on a coordinator
\* whose intake queue holds a staged operation.
C13_Witness ==
    \E c \in Callers : /\ pc[c] \in {"read", "delete"}
                        /\ connection[ref[c]] = "open"
                        /\ waiting_ops[ref[c]] # <<>>

\* The returning_id operations whose deferred result holds a value.
Resolved == {q \in QueryIds : queries[q].return_value = "value"}

Uncommitted(i) ==
    {q \in QueryIds : queries[q].inst = i
                        /\ \A n \in 1..Len(store) : store[n] # q}

\* C15: while at least min_ops accepted operations of a coordinator are not
\* committed and no shutdown has begun, both of its workers are running (the
\* Dispatcher and the Committer are started threads that have not ended), so
\* that the operations can still be transferred and committed.
C15_WorkersRunning ==
    \A i \in Inst :
        (/\ del_pc[i] = "idle"
         /\ ~close[i]
         /\ Cardinality(Uncommitted(i)) >= min_ops[i]) =>
            (iuthread[i] # "dead" /\ qthread[i] \notin {"initial", "dead"})

\* The Committer of coordinator i is inside a commit: it has set
\* updating_database and has not yet committed (lines 107-113).
MidCommit(i) == updating_database[i] /\ iuthread[i] \in {"l109", "l113"}

MidSplice(i) ==
    qthread[i] = "l124" /\ waiting_ops[i] # <<>> /\ pending_ops[i] # <<>>

C19_ReleaseOrdering ==
    \A i \in Inst : connection[i] = "closed" =>
        /\ iuthread[i] \notin {"l109", "l113"}
        /\ \A q \in QueryIds :
              (queries[q].inst = i /\ queries[q].returning_id) =>
                  queries[q].return_value # "pending"

ExecutedOn(i) == store \o txn[i]

InProgress(i) ==
    \/ iuthread[i] \in {"l109", "l113", "l114"}
    \/ \E c \in Callers : ref[c] = i /\ pc[c] = "init"

\* C21: updating_database is true while a batch commit or a schema
\* bootstrap is in progress on the coordinator, and false whenever neither
\* is: a commit or an init that has ended leaves it false.
C21_FlagAccuracy ==
    \A i \in Inst : updating_database[i] <=> InProgress(i)

\* C22: a call of register_new_metadata that has put its Metadata insert in
\* the intake queue of a coordinator on which no shutdown has begun goes on
\* to wait for the id of that insert, and it enqueues the link insert and
\* returns only once the deferred result of the Metadata insert holds the id.
C22_LinkAfterId ==
    [][\A c \in Callers :
          /\ (pc[c] = "rnm_put" /\ del_pc[ref[c]] = "idle" /\ pc'[c] # pc[c])
                 => pc'[c] = "l349"
          /\ (pc[c] = "l349" /\ pc'[c] # pc[c])
                 => queries[Awaited(c)].return_value = "value"]_vars

\* There is no information available in data: no first item, or a first
\* item lacking snippet, contentDetails or statistics.
NoInformation(data) ==
    \/ data.items \in {"missing", "empty"}
    \/ Not(data.content.snippet)
    \/ Not(data.content.details)
    \/ Not(data.content.statistics)

\* C23: a construction of YouTubeVideoData with ignore_errors False raises
\* EmptyBodyError when data has no information available; a construction
\* with ignore_errors True raises no EmptyBodyError whatever the data, and
\* the fields of a part that is unavailable keep their defaults.
C23_EmptyBodyError ==
    (video.called /\ "result" \in DOMAIN video) =>
        LET data == video.data
            r == video.result
            none == data.items \in {"missing", "empty"}
        IN /\ (~video.ignore_errors /\ NoInformation(data)) =>
                  r.raised = "EmptyBodyError"
           /\ video.ignore_errors =>
                  /\ r.raised # "EmptyBodyError"
                  /\ (none \/ Not(data.content.snippet)) =>
                        (r.title = "" /\ r.thumbnail = "" /\ r.artist = "")
                  /\ (none \/ Not(data.content.details)) => r.duration = 0
                  /\ (none \/ Not(data.content.statistics)) =>
                        (r.views = 0 /\ r.likes = 0 /\ r.dislikes = 0)

====
